---- MODULE Spec2Model ----
(***************************************************************************)
(* Model of the frame search and ingestion code of tomasellis/trace:       *)
(*   backend/src/utils/screenshotSearch.ts  (search orchestration)         *)
(*   backend/src/utils/localVectorDB.ts     (vector store client)          *)
(*   backend/src/routes/videos.ts           (/upload, /search-screenshot)  *)
(*   backend/src/scripts/bulkVideoImport.ts (bulk import)                  *)
(*   frontend/src/hooks/useFlash.tsx        (flash message)                *)
(*   frontend/src/components/ImageUpload.tsx (ImageSearcher component)     *)
(* Each subsystem has its own specification; a specification leaves the    *)
(* variables of the other subsystems unchanged.                            *)
(***************************************************************************)
EXTENDS Integers, Sequences, FiniteSets, TLC

VARIABLES
    \* ---- searchSimilarFrames called directly (SpecSearch)
    sPc,        \* "idle" | "querying" | "returned"
    sEmbs,      \* screenshotEmbeddings argument
    sLimit,     \* limit argument (possibly not given)
    sQueries,   \* requests sent to POST /vector-db/query, in order
    sOutcome,   \* what the fetch of /vector-db/query produced
    sRet,       \* what searchSimilarFrames returned or threw
    \* ---- POST /search-screenshot (SpecRoute)
    rPc,        \* "idle" | "embedding" | "searching" | "responded"
    reqFile,    \* whether the request carries a screenshot file
    reqLimit,   \* req.body.limit
    rEmbed,     \* how the call of the embedding service ended
    rEmbs,      \* screenshotEmbeddings
    rStore,     \* how the call of the vector store ended
    rResponse,  \* the HTTP response sent
    \* ---- upsertFrameEmbeddings (SpecUpsert)
    uPrev,      \* the call before the latest one: arguments, ids built
    uLast,      \* the latest call: arguments, ids built, how it ended
    uStore,     \* the records of the vector store, by id
    \* ---- ingestion: POST /upload (SpecUpload) and the bulk import (SpecBulk)
    disk,       \* per frames directory: whether it exists, how many .jpg it holds
    jobs,       \* the processing service's jobs, by job id
    uploads,    \* names multer stored the uploaded videos under, in order
    upResponse, \* the last response of POST /upload
    bPc,        \* bulk import: "idle" | "next" | "polling" | "requesting"
    bEntry,     \* how the running bulk import was started
    bOptions,   \* the options bulkImportVideos was called with
    bIndex,     \* position in the scanned video list
    bJob,       \* job id importSingleVideo is polling
    bStatus,    \* importSingleVideo's `status`: what the last poll observed
    bStarted,   \* the jobs this bulk import started: file and frames found before
    bFrames,    \* processedFrames of the importSingleVideo call that ended last
    bRequestFailures, \* requests that failed in the current or last importSingleVideo
    bResults,   \* results collected so far
    bSummary,   \* what the last bulkImportVideos returned
    bRuns,      \* bulk imports started so far
    ingested,   \* per video: the record ids each completed ingestion wrote
    \* ---- importVideosWithMetadata (SpecMetadata)
    mFile,      \* the parsed metadata file of the last call
    mMovies,    \* processedMovies of the last call
    \* ---- useFlash (SpecFlash) and the ImageSearcher component (SpecSearcher)
    fFlash,     \* useFlash: the `flash` state, a message or null
    fTimer,     \* ms until the pending window.setTimeout callback runs, or NoTimer
    fAge,       \* ms since the latest call of showFlash, up to FlashDelay
    iFile,      \* ImageSearcher: the `file` state
    iPreview,   \* the `preview` state: an object URL or null
    iStatus,    \* the `status` state
    iResult,    \* the `result` state
    iSearching, \* the `isSearching` state
    iResults,   \* the `searchResults` state
    iInflight,  \* the fetches of /search-screenshot not yet settled
    iLive,      \* the object URLs created and not revoked
    iCreated    \* how many object URLs were created so far

searchVars == <<sPc, sEmbs, sLimit, sQueries, sOutcome, sRet>>
routeVars == <<rPc, reqFile, reqLimit, rEmbed, rEmbs, rStore, rResponse>>

upsertVars == <<uPrev, uLast, uStore>>

ingestVars == <<disk, jobs, uploads, upResponse, bPc, bEntry, bOptions, bIndex, bJob,
                bStatus, bStarted, bFrames, bRequestFailures, bResults, bSummary, bRuns,
                ingested>>

metadataVars == <<mFile, mMovies>>

flashVars == <<fFlash, fTimer, fAge>>
searcherVars == <<iFile, iPreview, iStatus, iResult, iSearching, iResults, iInflight,
                  iLive, iCreated>>
pageVars == <<flashVars, searcherVars>>

vars == <<searchVars, routeVars, upsertVars, ingestVars, metadataVars, pageVars>>

\* What the actions of one subsystem leave alone.
notSearch == <<routeVars, upsertVars, ingestVars, metadataVars, pageVars>>
notRoute == <<searchVars, upsertVars, ingestVars, metadataVars, pageVars>>
notUpsert == <<searchVars, routeVars, ingestVars, metadataVars, pageVars>>
notIngest == <<searchVars, routeVars, uPrev, uLast, metadataVars, pageVars>>
notMetadata == <<searchVars, routeVars, upsertVars, ingestVars, pageVars>>
notPage == <<searchVars, routeVars, upsertVars, ingestVars, metadataVars>>

(***************************************************************************)
(* Bounds of the model.                                                    *)
(***************************************************************************)
MaxResults == 3     \* longest primary result list the store answers with
MaxFallback == 2    \* longest fallback list the store answers with
MaxLimit == 2       \* largest explicit limit argument
MaxPatches == 2     \* longest embeddings list handed to upsertFrameEmbeddings
MaxRuns == 2        \* bulk imports started in one behaviour
SingleRun == 1      \* bulk imports started where one import is followed to its end
MaxUploads == 2     \* uploads handled in one behaviour
MaxEntries == 2     \* longest list of a metadata file
TimeStep == 500     \* step of the clock of the flash timer, in ms
MaxUrls == 3        \* object URLs created in one behaviour
MaxShown == 2       \* longest result list of a search response

\* limit: number = 3
DefaultLimit == 3

Scores == {1, 2}
FramePaths == {"frames/m/frame_0000.jpg", "frames/m/frame_0001.jpg"}

\* SearchResult, reduced to the fields the search reads.
SearchResults == [score : Scores, framePath : FramePaths]

SeqsUpTo(S, n) == UNION {[1..k -> S] : k \in 0..n}

\* A field of a JSON body: present with a value, or missing.
Present(v) == [present |-> TRUE, value |-> v]
Absent == [present |-> FALSE, value |-> <<>>]

(***************************************************************************)
(* Values.                                                                 *)
(***************************************************************************)
FullA == [patchType |-> "full", embedding |-> "vecA"]
FullB == [patchType |-> "full", embedding |-> "vecB"]
GridC == [patchType |-> "grid_0", embedding |-> "vecC"]

\* Lists of ScreenshotEmbedding handed to searchSimilarFrames.
EmbeddingInputs ==
    {<<>>, <<FullA>>, <<GridC>>, <<GridC, FullA>>, <<FullA, FullB>>, <<GridC, GridC>>}

NotGiven == [given |-> FALSE, value |-> 0]
Given(n) == [given |-> TRUE, value |-> n]
LimitArgs == {NotGiven} \cup {Given(n) : n \in 1..MaxLimit}

\* What `await fetch(...)` of the store can produce: a rejected promise, a
\* non-OK status, or an OK status with a JSON body.
StoreOutcomes ==
    {[kind |-> "unreachable"], [kind |-> "nonOK", status |-> 500]}
    \cup {[kind |-> "ok", results |-> r, fallback |-> f] :
            r \in {Present(l) : l \in SeqsUpTo(SearchResults, MaxResults)} \cup {Absent},
            f \in {Present(l) : l \in SeqsUpTo(SearchResults, MaxFallback)} \cup {Absent}}

NoOutcome == [kind |-> "none"]
NoRet == [status |-> "none"]

(***************************************************************************)
(* localVectorDB.ts: querySimilarVectors                                   *)
(***************************************************************************)
\* data.results || []
OrEmpty(field) == IF field.present THEN field.value ELSE <<>>

\* The request body built by querySimilarVectors.
SearchRequest(queryEmbedding, topK, filter) ==
    [embedding |-> queryEmbedding, limit |-> topK, filter |-> filter]

Thrown(msgs) == [status |-> "error", error |-> msgs]

QuerySimilarVectorsMaskingFailure(outcome) ==
    IF outcome.kind = "ok"
    THEN [status |-> "ok",
          results |-> OrEmpty(outcome.results),
          fallback |-> OrEmpty(outcome.fallback)]
    ELSE [status |-> "ok", results |-> <<>>, fallback |-> <<>>]

QuerySimilarVectors(outcome) ==
    IF outcome.kind = "ok"
    THEN [status |-> "ok",
          results |-> OrEmpty(outcome.results),
          fallback |-> OrEmpty(outcome.fallback)]
    ELSE IF outcome.kind = "nonOK"
    THEN Thrown(<<"Failed to query similar vectors", "Failed to query vectors: 500">>)
    ELSE Thrown(<<"Failed to query similar vectors", "fetch failed">>)

(***************************************************************************)
(* screenshotSearch.ts: searchSimilarFrames                                *)
(***************************************************************************)
EffectiveLimit(limitArg) == IF limitArg.given THEN limitArg.value ELSE DefaultLimit

FullIndexes(embs) == {i \in 1..Len(embs) : embs[i].patchType = "full"}

FindAnyPatch(embs) == IF Len(embs) = 0 THEN 0 ELSE 1

\* screenshotEmbeddings.find(e => e.patchType === 'full'): index of the first
\* full patch, 0 when there is none.
FindFullPatch(embs) ==
    IF FullIndexes(embs) = {} THEN 0
    ELSE CHOOSE i \in FullIndexes(embs) : \A j \in FullIndexes(embs) : i <= j

\* The requests searchSimilarFrames sends to the store.
SearchQueries(embs, limitArg) ==
    IF FindFullPatch(embs) = 0 THEN <<>>
    ELSE <<SearchRequest(embs[FindFullPatch(embs)].embedding,
                         EffectiveLimit(limitArg),
                         [patchType |-> "full"])>>

AllResultsMerged(results, fallback) == results \o fallback

\* if (results && results.length > 0) push results
\* else if (fallback && fallback.length > 0) push fallback
AllResults(results, fallback) ==
    IF Len(results) > 0 THEN results
    ELSE IF Len(fallback) > 0 THEN fallback
    ELSE <<>>

\* self.findIndex(r => r.metadata.framePath === path)
FindIndex(self, path) ==
    CHOOSE i \in 1..Len(self) :
        /\ self[i].framePath = path
        /\ \A j \in 1..(i - 1) : self[j].framePath # path

RECURSIVE FilterFirst(_, _)
FilterFirst(self, index) ==
    IF index > Len(self) THEN <<>>
    ELSE (IF index = FindIndex(self, self[index].framePath)
          THEN <<self[index]>> ELSE <<>>)
         \o FilterFirst(self, index + 1)

DedupeNothing(allResults) == allResults

\* allResults.filter((result, index, self) => index === self.findIndex(...))
Dedupe(allResults) == FilterFirst(allResults, 1)

\* Array.prototype.sort is stable: an element goes behind every element
\* the comparator does not put after it.
RECURSIVE InsertSorted(_, _)
InsertSorted(sorted, x) ==
    IF Len(sorted) = 0 THEN <<x>>
    ELSE IF sorted[Len(sorted)].score - x.score <= 0 THEN Append(sorted, x)
    ELSE Append(InsertSorted(SubSeq(sorted, 1, Len(sorted) - 1), x),
                sorted[Len(sorted)])

RECURSIVE SortFrom(_, _, _)
SortFrom(list, index, acc) ==
    IF index > Len(list) THEN acc
    ELSE SortFrom(list, index + 1, InsertSorted(acc, list[index]))

SortNothing(list) == list

SortByScoreTiesReversed(list) ==
    SortFrom([i \in 1..Len(list) |-> list[Len(list) + 1 - i]], 1, <<>>)

\* uniqueResults.sort((a, b) => a.score - b.score)
SortByScore(list) == SortFrom(list, 1, <<>>)

SearchReturnKeepingFallback(uniqueResults, fallback) ==
    [status |-> "ok", results |-> uniqueResults, fallback |-> fallback]

\* return { results: uniqueResults, fallback: [] }
SearchReturn(uniqueResults, fallback) ==
    [status |-> "ok", results |-> uniqueResults, fallback |-> <<>>]

\* The catch block of searchSimilarFrames wraps whatever was thrown.
Rethrown(prefix, thrown) == Thrown(<<prefix>> \o thrown.error)

\* searchSimilarFrames once the store has answered.
SearchAfterQuery(outcome) ==
    LET q == QuerySimilarVectors(outcome)
    IN  IF q.status = "error"
        THEN Rethrown("Failed to search similar frames", q)
        ELSE SearchReturn(SortByScore(Dedupe(AllResults(q.results, q.fallback))),
                          q.fallback)

\* searchSimilarFrames as a whole, given what the store answers if asked.
SearchSimilarFrames(embs, limitArg, outcome) ==
    IF FindFullPatch(embs) = 0
    THEN Thrown(<<"Failed to search similar frames", "No full patch embedding found">>)
    ELSE SearchAfterQuery(outcome)

(***************************************************************************)
(* SpecSearch: one call of searchSimilarFrames.                            *)
(***************************************************************************)
SearchInit ==
    /\ sPc = "idle"
    /\ sEmbs = <<>>
    /\ sLimit = NotGiven
    /\ sQueries = <<>>
    /\ sOutcome = NoOutcome
    /\ sRet = NoRet

\* The call up to `await querySimilarVectors(...)`, or to the throw when no
\* full patch exists.
CallSearch ==
    /\ sPc = "idle"
    /\ \E embs \in EmbeddingInputs, limitArg \in LimitArgs :
        /\ sEmbs' = embs
        /\ sLimit' = limitArg
        /\ sQueries' = sQueries \o SearchQueries(embs, limitArg)
        /\ IF SearchQueries(embs, limitArg) = <<>>
           THEN /\ sPc' = "returned"
                /\ sRet' = SearchSimilarFrames(embs, limitArg, NoOutcome)
           ELSE /\ sPc' = "querying"
                /\ sRet' = sRet
    /\ UNCHANGED sOutcome
    /\ UNCHANGED notSearch

\* The store answers (or fails) and the call runs to its return or throw.
StoreAnswers ==
    /\ sPc = "querying"
    /\ \E outcome \in StoreOutcomes :
        /\ sOutcome' = outcome
        /\ sRet' = SearchSimilarFrames(sEmbs, sLimit, outcome)
    /\ sPc' = "returned"
    /\ UNCHANGED <<sEmbs, sLimit, sQueries>>
    /\ UNCHANGED notSearch

SearchNext == CallSearch \/ StoreAnswers

(***************************************************************************)
(* screenshotSearch.ts: generateScreenshotEmbeddings                       *)
(***************************************************************************)
\* A patch as the embedding service sends it; patch_type may be missing.
RawPatch(type, vec) == [patch_type |-> type, embedding |-> vec]

\* What axios.post of /embed/single can produce: axios rejects when the
\* service cannot be reached and when it answers with a non-2xx status.
EmbedOutcomes ==
    {[kind |-> "unreachable"], [kind |-> "nonOK", status |-> 500]}
    \cup {[kind |-> "ok", embeddings |-> e] :
            e \in {Absent,
                   Present(<<>>),
                   Present(<<RawPatch("full", "vecA")>>),
                   Present(<<RawPatch("grid_0", "vecC"), RawPatch("full", "vecA")>>),
                   Present(<<RawPatch("grid_0", "vecC")>>),
                   Present(<<RawPatch("", "vecB")>>)}}

\* patchType: embedding.patch_type || 'full'
ToScreenshotEmbedding(raw) ==
    [patchType |-> IF raw.patch_type = "" THEN "full" ELSE raw.patch_type,
     embedding |-> raw.embedding]

GenerateScreenshotEmbeddings(outcome) ==
    IF outcome.kind = "ok"
    THEN [status |-> "ok",
          embeddings |->
              [i \in 1..Len(OrEmpty(outcome.embeddings)) |->
                  ToScreenshotEmbedding(OrEmpty(outcome.embeddings)[i])]]
    ELSE IF outcome.kind = "nonOK"
    THEN Thrown(<<"Failed to generate embeddings", "Request failed with status code 500">>)
    ELSE Thrown(<<"Failed to generate embeddings", "connect ECONNREFUSED">>)

(***************************************************************************)
(* routes/videos.ts: POST /search-screenshot                               *)
(***************************************************************************)
\* req.body.limit: missing, or the text of the form field.
LimitFields ==
    {Absent, Present(<<>>), Present(<<"2">>), Present(<<"0">>),
     Present(<<"-", "1">>), Present(<<"a">>), Present(<<"1", "x">>)}

IsDigit(c) == c \in {"0", "1", "2", "3", "4", "5", "6", "7", "8", "9"}
DigitValue(c) ==
    CASE c = "0" -> 0 [] c = "1" -> 1 [] c = "2" -> 2 [] c = "3" -> 3
      [] c = "4" -> 4 [] c = "5" -> 5 [] c = "6" -> 6 [] c = "7" -> 7
      [] c = "8" -> 8 [] c = "9" -> 9

NaN == [nan |-> TRUE, value |-> 0]
Num(n) == [nan |-> FALSE, value |-> n]

\* The longest prefix of digits of `chars` from position i, as a number.
RECURSIVE DigitsFrom(_, _, _, _)
DigitsFrom(chars, i, acc, seen) ==
    IF i <= Len(chars) /\ IsDigit(chars[i])
    THEN DigitsFrom(chars, i + 1, acc * 10 + DigitValue(chars[i]), TRUE)
    ELSE IF seen THEN Num(acc) ELSE NaN

RECURSIVE SkipSpaces(_, _)
SkipSpaces(chars, i) ==
    IF i <= Len(chars) /\ chars[i] = " " THEN SkipSpaces(chars, i + 1) ELSE i

\* parseInt(field): leading blanks, an optional sign, then decimal digits;
\* NaN when no digit follows (also for undefined).
ParseInt(field) ==
    IF ~field.present THEN NaN
    ELSE LET chars == field.value
             start == SkipSpaces(chars, 1)
             signed == start <= Len(chars) /\ chars[start] \in {"-", "+"}
             magnitude == DigitsFrom(chars, IF signed THEN start + 1 ELSE start, 0, FALSE)
         IN  IF magnitude.nan THEN NaN
             ELSE IF signed /\ chars[start] = "-" THEN Num(0 - magnitude.value)
             ELSE magnitude

\* const limit = parseInt(req.body.limit) || 3
RouteLimit(field) ==
    IF ParseInt(field).nan \/ ParseInt(field).value = 0 THEN 3
    ELSE ParseInt(field).value

NoResponse == [status |-> 0]

ErrorResponse(code, message, details) ==
    [status |-> code, error |-> message, details |-> details]

SearchResponse(results, embs, limit) ==
    [status |-> 200,
     message |-> "Search completed successfully",
     results |-> results,
     embeddingsGenerated |-> Len(embs),
     resultsFound |-> Len(results),
     limit |-> limit]

RouteInit ==
    /\ rPc = "idle"
    /\ reqFile = FALSE
    /\ reqLimit = Absent
    /\ rEmbed = "none"
    /\ rEmbs = <<>>
    /\ rStore = "none"
    /\ rResponse = NoResponse

\* The handler up to `await generateScreenshotEmbeddings(...)`.
ReceiveSearchRequest ==
    /\ rPc = "idle"
    /\ \E file \in BOOLEAN, field \in LimitFields :
        /\ reqFile' = file
        /\ reqLimit' = field
        /\ IF ~file
           THEN /\ rResponse' = ErrorResponse(400, "No screenshot file provided", <<>>)
                /\ rPc' = "responded"
           ELSE /\ rResponse' = rResponse
                /\ rPc' = "embedding"
    /\ UNCHANGED <<rEmbed, rEmbs, rStore>>
    /\ UNCHANGED notRoute

\* generateScreenshotEmbeddings returns or throws; the handler goes on to
\* `await searchSimilarFrames(...)` or responds.
EmbeddingReturns ==
    /\ rPc = "embedding"
    /\ \E outcome \in EmbedOutcomes :
        LET g == GenerateScreenshotEmbeddings(outcome)
        IN  /\ rEmbed' = outcome.kind
            /\ IF g.status = "error"
               THEN /\ rResponse' = ErrorResponse(500, "Internal server error during search",
                                                  g.error)
                    /\ rPc' = "responded"
                    /\ rEmbs' = rEmbs
               ELSE IF Len(g.embeddings) = 0
               THEN /\ rResponse' = ErrorResponse(500,
                                        "Failed to generate embeddings for screenshot", <<>>)
                    /\ rPc' = "responded"
                    /\ rEmbs' = g.embeddings
               ELSE /\ rResponse' = rResponse
                    /\ rPc' = "searching"
                    /\ rEmbs' = g.embeddings
    /\ UNCHANGED <<reqFile, reqLimit, rStore>>
    /\ UNCHANGED notRoute

\* searchSimilarFrames returns or throws and the handler responds.
SearchReturns ==
    /\ rPc = "searching"
    /\ \E outcome \in (IF FindFullPatch(rEmbs) = 0 THEN {NoOutcome} ELSE StoreOutcomes) :
        LET limit == RouteLimit(reqLimit)
            ret == SearchSimilarFrames(rEmbs, Given(limit), outcome)
        IN  /\ rStore' = outcome.kind
            /\ rResponse' =
                  IF ret.status = "error"
                  THEN ErrorResponse(500, "Internal server error during search", ret.error)
                  ELSE SearchResponse(ret.results, rEmbs, limit)
    /\ rPc' = "responded"
    /\ UNCHANGED <<reqFile, reqLimit, rEmbed, rEmbs>>
    /\ UNCHANGED notRoute

RouteNext == ReceiveSearchRequest \/ EmbeddingReturns \/ SearchReturns

(***************************************************************************)
(* localVectorDB.ts: upsertFrameEmbeddings                                 *)
(***************************************************************************)
FrameIds == {1, 11}
PatchTypes == {"full", "grid_1", "1"}

\* The embeddings argument, reduced to each entry's patchType.
PatchLists == SeqsUpTo(PatchTypes, MaxPatches)

VectorIdWithoutIndex(frameId, patchType, index) ==
    "frame_" \o ToString(frameId) \o "_" \o patchType

\* `frame_${frameId}_${embeddingData.patchType}_${index}`, index from 0
VectorId(frameId, patchType, index) ==
    "frame_" \o ToString(frameId) \o "_" \o patchType \o "_" \o ToString(index)

\* embeddings.map((embeddingData, index) => ...): the vectors of the request.
Vectors(frameId, framePath, timestamp, patches) ==
    [i \in 1..Len(patches) |->
        [id |-> VectorId(frameId, patches[i], i - 1),
         metadata |-> [frameId |-> frameId,
                       framePath |-> framePath,
                       timestamp |-> timestamp,
                       patchType |-> patches[i]]]]

\* The fixed output size of the Embedding Provider, and the lengths of the
\* `embedding` arrays a caller can hand over.
EmbeddingSize == 4
Dimensions == {EmbeddingSize, EmbeddingSize - 1}
DimensionLists(n) == [1..n -> Dimensions]

\* What fetch of /vector-db/upsert can produce: the batch written (ok), the
\* batch refused for a vector of the wrong size (invalid), a server error
\* (nonOK), no answer (unreachable), or a part of the batch written, which
\* the store reports with the ids that succeeded in a 2xx (partialOK) or in
\* an error answer (partialNonOK).
UpsertOutcomes == {"ok", "invalid", "nonOK", "unreachable", "partialOK", "partialNonOK"}

HasWrongDimension(dims) == \E i \in 1..Len(dims) : dims[i] # EmbeddingSize

\* The store validates every vector of a batch before it writes any.
StoreCanAnswer(outcome, dims) ==
    CASE outcome = "invalid" -> HasWrongDimension(dims)
      [] outcome = "ok" -> ~HasWrongDimension(dims)
      [] outcome \in {"partialOK", "partialNonOK"} ->
            ~HasWrongDimension(dims) /\ Len(dims) >= 2
      [] OTHER -> TRUE

\* How many vectors of the batch the store wrote.
WrittenCounts(outcome, n) ==
    CASE outcome = "ok" -> {n}
      [] outcome \in {"partialOK", "partialNonOK"} -> 1..(n - 1)
      [] OTHER -> {0}

\* The store's upsert: write or overwrite each record under its id.
StoreUpsert(store, vectors) ==
    [id \in DOMAIN store \cup {vectors[i].id : i \in 1..Len(vectors)} |->
        IF \E i \in 1..Len(vectors) : vectors[i].id = id
        THEN (LET last == CHOOSE i \in 1..Len(vectors) :
                              /\ vectors[i].id = id
                              /\ \A j \in (i + 1)..Len(vectors) : vectors[j].id # id
              IN  vectors[last].metadata)
        ELSE store[id]]

\* response.ok and response.status of each outcome.
ResponseOk(outcome) == outcome \in {"ok", "partialOK"}
ResponseStatus(outcome) == IF outcome = "invalid" THEN "422" ELSE "500"

UpsertFrameEmbeddingsIgnoringStatus(frameId, framePath, timestamp, patches, outcome) ==
    [status |-> "ok",
     ids |-> [i \in 1..Len(patches) |->
                 Vectors(frameId, framePath, timestamp, patches)[i].id]]

\* return vectorIds when response.ok, otherwise throw; the body of the
\* response is never read.
UpsertFrameEmbeddings(frameId, framePath, timestamp, patches, outcome) ==
    IF ResponseOk(outcome)
    THEN [status |-> "ok",
          ids |-> [i \in 1..Len(patches) |->
                      Vectors(frameId, framePath, timestamp, patches)[i].id]]
    ELSE IF outcome = "unreachable"
    THEN Thrown(<<"Failed to upsert embeddings", "fetch failed">>)
    ELSE Thrown(<<"Failed to upsert embeddings",
                  "Failed to upsert vectors: " \o ResponseStatus(outcome)>>)

NoCall == [made |-> FALSE]

\* What is kept of the call before the latest one: its arguments and the
\* vectors it sent.
CallMade(call) ==
    IF call.made
    THEN [made |-> TRUE, frameId |-> call.frameId, patches |-> call.patches,
          sent |-> call.sent]
    ELSE call

UpsertInit ==
    /\ uPrev = NoCall
    /\ uLast = NoCall
    /\ uStore = <<>>

\* One call of upsertFrameEmbeddings, from building the ids to its return.
Upsert ==
    /\ ~uPrev.made
    /\ \E frameId \in FrameIds, patches \in PatchLists, outcome \in UpsertOutcomes :
       \E dims \in DimensionLists(Len(patches)) :
       \E written \in WrittenCounts(outcome, Len(patches)) :
        LET framePath == "frames/m/frame_" \o ToString(frameId) \o ".jpg"
            vectors == Vectors(frameId, framePath, 0, patches)
        IN  /\ StoreCanAnswer(outcome, dims)
            /\ uLast' = [made |-> TRUE,
                         frameId |-> frameId,
                         patches |-> patches,
                         dims |-> dims,
                         sent |-> vectors,
                         outcome |-> outcome,
                         written |-> {vectors[i].id : i \in 1..written},
                         ret |-> UpsertFrameEmbeddings(frameId, framePath, 0, patches,
                                                      outcome)]
            /\ uStore' = StoreUpsert(uStore, SubSeq(vectors, 1, written))
    /\ uPrev' = CallMade(uLast)
    /\ UNCHANGED notUpsert

UpsertNext == Upsert


(***************************************************************************)
(* Ingestion: the files, the frames directories, the processing service.   *)
(***************************************************************************)
\* A video file: path.basename(name, ext), path.extname(name), and which
\* film the file holds.
VideoFile(base, ext, content) == [base |-> base, ext |-> ext, content |-> content]
FileName(video) == video.base \o video.ext

\* What scanForVideos finds in the videos directory, in readdir order.
ScannedVideos == <<VideoFile("a", ".mp4", "a"), VideoFile("b", ".mkv", "b")>>
Contents == {"a", "b"}

\* Date.now() + "-" + Math.round(Math.random() * 1E9)
UniqueSuffixes == {"1700000000000-1", "1700000000001-2"}

\* multer's filename callback: `video-${uniqueSuffix}${ext}`
StoredUpload(original, uniqueSuffix) ==
    VideoFile("video-" \o uniqueSuffix, original.ext, original.content)

\* path.join(outputBaseDir, path.basename(fileName, path.extname(fileName)))
\* and path.join(.., path.parse(req.file.filename).name): the directory
\* below uploads/frames.
FramesOutputDir(video) == video.base

FrameDirs ==
    {FramesOutputDir(ScannedVideos[i]) : i \in 1..Len(ScannedVideos)}
    \cup {"video-" \o x : x \in UniqueSuffixes}

NoDir == [exists |-> FALSE, jpgs |-> 0]

\* frame_interval: 3
FrameInterval == 3

\* Length of each film in seconds.
Duration(content) == IF content = "a" THEN 9 ELSE 3

\* One frame per interval boundary before the end of the film.
FrameCount(content) == (Duration(content) + FrameInterval - 1) \div FrameInterval

FramePathOf(dir, index) == dir \o "/frame_" \o ToString(index) \o ".jpg"

\* A Frame's id: fixed by the frame's place in the persisted layout.
DirNumber(dir) ==
    CASE dir = "a" -> 1 [] dir = "b" -> 2
      [] dir = "video-1700000000000-1" -> 3 [] OTHER -> 4
FrameIdOf(dir, index) == DirNumber(dir) * 100 + index

\* The Vector Records of one frame: its `full` patch.
FrameVectors(dir, index) ==
    Vectors(FrameIdOf(dir, index), FramePathOf(dir, index), index * FrameInterval,
            <<"full">>)

RECURSIVE StoreFrames(_, _, _)
StoreFrames(store, dir, n) ==
    IF n = 0 THEN store
    ELSE StoreUpsert(StoreFrames(store, dir, n - 1), FrameVectors(dir, n - 1))

IdsOfFrames(dir, n) == {FrameVectors(dir, k)[1].id : k \in 0..(n - 1)}

\* The files of a frames directory after `n` frames were written into it.
WriteFrames(dirState, n) ==
    [exists |-> TRUE, jpgs |-> IF dirState.jpgs > n THEN dirState.jpgs ELSE n]

JobStates == <<"pending", "extracting", "embedding", "storing", "done">>
NextJobState(state) ==
    CASE state = "pending" -> "extracting"
      [] state = "extracting" -> "embedding"
      [] state = "embedding" -> "storing"
      [] state = "storing" -> "done"
Running(job) == job.status \notin {"done", "error"}

\* The `error` of a failed job's status.
JobError == "CUDA out of memory"

(***************************************************************************)
(* routes/videos.ts: POST /upload                                          *)
(***************************************************************************)
\* What fetch of /process-video can produce.
ProcessOutcomes == {"ok", "nonOK", "unreachable"}

\* processVideo: the frames of the service's answer, or a throw.
ProcessVideo(dir, content, outcome) ==
    IF outcome = "ok"
    THEN [status |-> "ok",
          frames |-> [i \in 1..FrameCount(content) |->
                         [framePath |-> FramePathOf(dir, i - 1),
                          timestamp |-> (i - 1) * FrameInterval]]]
    ELSE IF outcome = "nonOK"
    THEN Thrown(<<"Failed to process video", "HTTP 500: Internal Server Error">>)
    ELSE Thrown(<<"Failed to process video", "fetch failed">>)

\* The whole handler: multer stores the file under a fresh name, the
\* handler checks the fields and awaits processVideo.
Upload ==
    /\ Len(uploads) < MaxUploads
    /\ \E i \in 1..Len(ScannedVideos), uniqueSuffix \in UniqueSuffixes,
          fields \in BOOLEAN, outcome \in ProcessOutcomes :
        LET stored == StoredUpload(ScannedVideos[i], uniqueSuffix)
            dir == FramesOutputDir(stored)
            p == ProcessVideo(dir, stored.content, outcome)
            n == FrameCount(stored.content)
        IN  /\ uploads' = Append(uploads, FileName(stored))
            /\ IF ~fields
               THEN /\ upResponse' = ErrorResponse(400,
                                        "Movie Title and Director name are required", <<>>)
                    /\ UNCHANGED <<disk, uStore, ingested>>
               ELSE IF p.status = "error"
               THEN /\ upResponse' = ErrorResponse(500, "Failed to upload movie", p.error)
                    /\ UNCHANGED <<disk, uStore, ingested>>
               ELSE /\ upResponse' =
                         [status |-> 201,
                          framesProcessed |-> Len(p.frames),
                          timestamps |-> [k \in 1..Len(p.frames) |-> p.frames[k].timestamp]]
                    /\ disk' = [disk EXCEPT ![dir] = WriteFrames(@, n)]
                    /\ uStore' = StoreFrames(uStore, dir, n)
                    /\ ingested' = [ingested EXCEPT ![stored.content] =
                                        Append(@, IdsOfFrames(dir, n))]
    /\ UNCHANGED <<jobs, bPc, bEntry, bOptions, bIndex, bJob, bStatus, bStarted, bFrames,
                   bResults, bSummary, bRequestFailures, bRuns>>
    /\ UNCHANGED notIngest

(***************************************************************************)
(* The processing service's jobs (POST /start-process-video, GET /status). *)
(***************************************************************************)
\* A job moves one stage on; leaving `extracting` the frames are on disk,
\* leaving `storing` the records are in the vector store.
JobAdvance ==
    /\ \E j \in 1..Len(jobs) :
        /\ Running(jobs[j])
        /\ LET job == jobs[j]
               n == FrameCount(job.content)
               stored == n - job.failed
           IN  /\ jobs' = [jobs EXCEPT ![j].status = NextJobState(job.status)]
               /\ disk' = IF job.status = "pending"
                          THEN [disk EXCEPT ![job.output_dir].exists = TRUE]
                          ELSE IF job.status = "extracting"
                          THEN [disk EXCEPT ![job.output_dir] = WriteFrames(@, n)]
                          ELSE disk
               /\ uStore' = IF job.status = "storing"
                            THEN StoreFrames(uStore, job.output_dir, stored)
                            ELSE uStore
               /\ ingested' = IF job.status = "storing"
                              THEN [ingested EXCEPT ![job.content] =
                                        Append(@, IdsOfFrames(job.output_dir, stored))]
                              ELSE ingested
    /\ UNCHANGED <<uploads, upResponse, bPc, bEntry, bOptions, bIndex, bJob, bStatus,
                   bStarted, bFrames, bResults, bSummary, bRequestFailures, bRuns>>
    /\ UNCHANGED notIngest

\* A job fails at whatever stage it is in.
JobFail ==
    /\ \E j \in 1..Len(jobs) :
        /\ Running(jobs[j])
        /\ jobs' = [jobs EXCEPT ![j].status = "error", ![j].error = JobError]
    /\ UNCHANGED <<disk, uStore, ingested, uploads, upResponse, bPc, bEntry, bOptions,
                   bIndex, bJob, bStatus, bStarted, bFrames, bResults, bSummary,
                   bRequestFailures, bRuns>>
    /\ UNCHANGED notIngest

\* The embedding of one frame of a job fails: the job records the failure
\* against the frame and goes on with the other frames.
FrameEmbeddingFails ==
    /\ \E j \in 1..Len(jobs) :
        /\ jobs[j].status = "embedding"
        /\ jobs[j].failed < FrameCount(jobs[j].content)
        /\ jobs' = [jobs EXCEPT ![j].failed = @ + 1]
    /\ UNCHANGED <<disk, uStore, ingested, uploads, upResponse, bPc, bEntry, bOptions,
                   bIndex, bJob, bStatus, bStarted, bFrames, bResults, bSummary,
                   bRequestFailures, bRuns>>
    /\ UNCHANGED notIngest

\* The extraction stage of a job ends without a .jpg file in output_dir (the
\* frames went elsewhere or none was sampled): the job has nothing to embed
\* or store and goes on to `done` all the same.
ExtractionWritesNoFrame ==
    /\ \E j \in 1..Len(jobs) :
        /\ jobs[j].status = "extracting"
        /\ jobs' = [jobs EXCEPT ![j].status = NextJobState(@),
                                ![j].failed = FrameCount(jobs[j].content)]
    /\ UNCHANGED <<disk, uStore, ingested, uploads, upResponse, bPc, bEntry, bOptions,
                   bIndex, bJob, bStatus, bStarted, bFrames, bResults, bSummary,
                   bRequestFailures, bRuns>>
    /\ UNCHANGED notIngest

(***************************************************************************)
(* scripts/bulkVideoImport.ts and scripts/bulk-import.ts                   *)
(***************************************************************************)
\* options.skipExtraction as a caller can set it.
SkipSettings == {"true", "false"}

\* main(): bulkImportVideos(absoluteVideosPath), options = {}
CliOptions == [skipExtraction |-> "undefined", skipExisting |-> "undefined"]

\* importVideosWithMetadata: { customTitles, customDirectors, skipExisting: true }
MetadataOptions == [skipExtraction |-> "undefined", skipExisting |-> "true"]

\* importSingleVideo(movie, outputBaseDir, { skipExtraction: options.skipExtraction })
PassedOptions(options) == [given |-> TRUE, skipExtraction |-> options.skipExtraction]

\* options: { skipExtraction?: boolean } = { skipExtraction: true }, then
\* the test of options.skipExtraction
SkipExtraction(passed) ==
    IF passed.given THEN passed.skipExtraction = "true" ELSE TRUE

\* options.skipExtraction && fs.existsSync(framesOutputDir), and at least
\* one .jpg in it
UseExistingFrames(passed, dirState) ==
    SkipExtraction(passed) /\ dirState.exists /\ dirState.jpgs > 0

Success(video, frames) ==
    [fileName |-> FileName(video), success |-> TRUE,
     framesProcessed |-> frames, embeddingsStored |-> frames]
Failure(video, message) ==
    [fileName |-> FileName(video), success |-> FALSE, error |-> message]

\* !processedFrames: true of undefined only; an array is truthy, the empty
\* array included.
NotTruthy(value) == ~value.present

\* The end of importSingleVideo once processedFrames is assigned: the check
\* for no frames, then the statistics.
ImportResult(video, processedFrames) ==
    IF NotTruthy(processedFrames)
    THEN Failure(video, "No frames found for video: " \o FileName(video))
    ELSE Success(video, Len(processedFrames.value))

\* What axios.post of /start-process-video can produce.
StartOutcomes == {"job", "noJobId", "failed"}
\* What axios.get of /status/<job_id> can produce.
StatusOutcomes == {"ok", "failed"}

\* The message of the error axios throws for a failed request.
RequestFailed == "Request failed with status code 500"

KeepPollingUntilStoring(status) == status \notin {"storing", "done", "error"}

\* while (status !== 'done' && status !== 'error')
KeepPolling(status) == status # "done" /\ status # "error"

\* fs.readdirSync(framesOutputDir).filter(f => f.endsWith('.jpg')): the
\* .jpg files of the directory, each named by the position in time of its
\* frame, in whatever order the file system lists them.
Readdir(dirState) ==
    {listing \in [1..dirState.jpgs -> 0..(dirState.jpgs - 1)] :
        \A i, j \in 1..dirState.jpgs : i # j => listing[i] # listing[j]}

\* timestamp: idx * 3
TimestampStep == 3

ProcessedFramesCountingFromOne(dir, frameFiles) ==
    [i \in 1..Len(frameFiles) |->
        [framePath |-> FramePathOf(dir, frameFiles[i]),
         position |-> frameFiles[i],
         timestamp |-> i * TimestampStep]]

\* frameFiles.map((file, idx) => ({ framePath, timestamp: idx * 3, patches: [] }))
ProcessedFrames(dir, frameFiles) ==
    [i \in 1..Len(frameFiles) |->
        [framePath |-> FramePathOf(dir, frameFiles[i]),
         position |-> frameFiles[i],
         timestamp |-> (i - 1) * TimestampStep]]

NoSummary == [total |-> 0, successful |-> 0, failed |-> 0, results |-> <<>>]

\* Counting that stops at the first failed video.
CountWhereUntilFailure(results, flag) ==
    Cardinality({i \in 1..Len(results) :
                    /\ results[i].success = flag
                    /\ \A k \in 1..(i - 1) : results[k].success})

\* The counters `successful` and `failed` of the loop, one increment per
\* result.
CountWhere(results, flag) ==
    Cardinality({i \in 1..Len(results) : results[i].success = flag})

IngestInit ==
    /\ disk = [d \in FrameDirs |-> NoDir]
    /\ jobs = <<>>
    /\ uploads = <<>>
    /\ upResponse = NoResponse
    /\ bPc = "idle"
    /\ bEntry = "none"
    /\ bOptions = CliOptions
    /\ bIndex = 0
    /\ bJob = 0
    /\ bStatus = "none"
    /\ bStarted = <<>>
    /\ bFrames = <<>>
    /\ bRequestFailures = 0
    /\ bResults = <<>>
    /\ bSummary = NoSummary
    /\ bRuns = 0
    /\ ingested = [c \in Contents |-> <<>>]

\* bulkImportVideos is entered: from main() without or with a metadata
\* file, or called with options of the caller's own.
StartBulkImport ==
    /\ bPc = "idle"
    /\ bRuns < MaxRuns
    /\ \/ /\ bEntry' = "cli"
          /\ bOptions' = CliOptions
       \/ /\ bEntry' = "cliMetadata"
          /\ bOptions' = MetadataOptions
       \/ /\ bEntry' = "api"
          /\ \E skip \in SkipSettings :
                bOptions' = [skipExtraction |-> skip, skipExisting |-> "undefined"]
    /\ bRuns' = bRuns + 1
    /\ bIndex' = 1
    /\ bJob' = 0
    /\ bStatus' = "none"
    /\ bStarted' = <<>>
    /\ bFrames' = <<>>
    /\ bRequestFailures' = 0
    /\ bResults' = <<>>
    /\ bSummary' = NoSummary
    /\ bPc' = "next"
    /\ UNCHANGED <<disk, jobs, uploads, upResponse, uStore, ingested>>
    /\ UNCHANGED notIngest

\* importSingleVideo up to its first await: existing frames are reused, or
\* a processing job is requested.
ImportSingleVideo ==
    /\ bPc = "next"
    /\ bIndex <= Len(ScannedVideos)
    /\ LET video == ScannedVideos[bIndex]
           dir == FramesOutputDir(video)
       IN  IF UseExistingFrames(PassedOptions(bOptions), disk[dir])
           THEN \E frameFiles \in Readdir(disk[dir]) :
                /\ bFrames' = ProcessedFrames(dir, frameFiles)
                /\ bResults' = Append(bResults, ImportResult(video, Present(bFrames')))
                /\ bIndex' = bIndex + 1
                /\ bStatus' = "none"
                /\ bRequestFailures' = 0
                /\ UNCHANGED <<jobs, bJob, bStarted, bPc>>
           ELSE \E outcome \in StartOutcomes :
                /\ bFrames' = <<>>
                /\ bRequestFailures' = IF outcome = "failed" THEN 1 ELSE 0
                /\ bStarted' = Append(bStarted,
                                      [fileName |-> FileName(video),
                                       existing |-> disk[dir].jpgs,
                                       outcome |-> outcome])
                /\ IF outcome = "job"
                   THEN /\ jobs' = Append(jobs, [video_path |-> FileName(video),
                                                 output_dir |-> dir,
                                                 content |-> video.content,
                                                 status |-> "pending",
                                                 error |-> "null",
                                                 failed |-> 0])
                        /\ bJob' = Len(jobs) + 1
                        /\ bStatus' = "pending"
                        /\ bPc' = "polling"
                        /\ UNCHANGED <<bResults, bIndex>>
                   ELSE /\ bResults' = Append(bResults, Failure(video,
                              IF outcome = "noJobId" THEN "Failed to start embedding job"
                              ELSE RequestFailed))
                        /\ bIndex' = bIndex + 1
                        /\ bStatus' = "none"
                        /\ UNCHANGED <<jobs, bJob, bPc>>
    /\ UNCHANGED <<disk, uploads, upResponse, bEntry, bOptions, bSummary, bRuns, uStore,
                   ingested>>
    /\ UNCHANGED notIngest

\* await new Promise(res => setTimeout(res, pollInterval)): the loop test
\* passed and the importer sleeps, then sends the status request.
AwaitPollInterval ==
    /\ bPc = "polling"
    /\ bPc' = "requesting"
    /\ UNCHANGED <<disk, jobs, uploads, upResponse, bEntry, bOptions, bIndex, bJob,
                   bStatus, bStarted, bFrames, bResults, bSummary, bRequestFailures,
                   bRuns, uStore, ingested>>
    /\ UNCHANGED notIngest

\* The status request returns: the loop test, and when the loop ends the
\* rest of importSingleVideo.
PollStatus ==
    /\ bPc = "requesting"
    /\ \E outcome \in StatusOutcomes :
        LET video == ScannedVideos[bIndex]
            dir == FramesOutputDir(video)
            status == jobs[bJob].status
        IN  IF outcome = "failed"
            THEN /\ bResults' = Append(bResults, Failure(video, RequestFailed))
                 /\ bRequestFailures' = bRequestFailures + 1
                 /\ bIndex' = bIndex + 1
                 /\ bPc' = "next"
                 /\ UNCHANGED <<bStatus, bJob, bFrames>>
            ELSE /\ bStatus' = status
                 /\ UNCHANGED bRequestFailures
                 /\ IF KeepPolling(status)
                    THEN /\ bPc' = "polling"
                         /\ UNCHANGED <<bResults, bIndex, bJob, bFrames>>
                    ELSE /\ IF status = "error"
                            THEN /\ bResults' = Append(bResults,
                                        Failure(video, "Embedding job failed: "
                                                           \o jobs[bJob].error))
                                 /\ UNCHANGED bFrames
                            ELSE IF ~disk[dir].exists
                            THEN /\ bResults' = Append(bResults,
                                        Failure(video,
                                            "ENOENT: no such file or directory, scandir"))
                                 /\ UNCHANGED bFrames
                            ELSE \E frameFiles \in Readdir(disk[dir]) :
                                 /\ bFrames' = ProcessedFrames(dir, frameFiles)
                                 /\ bResults' = Append(bResults,
                                        ImportResult(video, Present(bFrames')))
                         /\ bIndex' = bIndex + 1
                         /\ bPc' = "next"
                         /\ UNCHANGED bJob
    /\ UNCHANGED <<disk, jobs, uploads, upResponse, bEntry, bOptions, bStarted, bSummary,
                   bRuns, uStore, ingested>>
    /\ UNCHANGED notIngest

\* The loop over the videos is over: bulkImportVideos returns its summary.
FinishBulkImport ==
    /\ bPc = "next"
    /\ bIndex > Len(ScannedVideos)
    /\ bSummary' = [total |-> Len(ScannedVideos),
                    successful |-> CountWhere(bResults, TRUE),
                    failed |-> CountWhere(bResults, FALSE),
                    results |-> bResults]
    /\ bPc' = "idle"
    /\ UNCHANGED <<disk, jobs, uploads, upResponse, bEntry, bOptions, bIndex, bJob,
                   bStatus, bStarted, bFrames, bRequestFailures, bResults, bRuns, uStore,
                   ingested>>
    /\ UNCHANGED notIngest

UploadNext == Upload

(***************************************************************************)
(* scripts/bulkVideoImport.ts: importVideosWithMetadata, and the titles    *)
(* bulkImportVideos applies.                                               *)
(***************************************************************************)
\* scanForVideos: movieTitle is the file name without its extension,
\* director is 'Unknown Director'.
ScannedInfo(video) ==
    [fileName |-> FileName(video), movieTitle |-> video.base,
     director |-> "Unknown Director"]

\* The key the help text documents, and the key the code reads.
DocumentedKey == "movies"
MetadataKeyRead == "videos"

\* One entry of a metadata file; "" stands for a field left out or empty.
MetadataEntries ==
    [fileName : {FileName(ScannedVideos[i]) : i \in 1..Len(ScannedVideos)},
     movieTitle : {"", "Alien"},
     director : {"", "Ridley Scott"}]

\* JSON.parse(metadataContent): an object with one list under one key.
MetadataFiles ==
    [key : {DocumentedKey, MetadataKeyRead}, entries : SeqsUpTo(MetadataEntries, MaxEntries)]

\* metadata.videos || []
MetadataVideos(metadata) ==
    IF metadata.key = MetadataKeyRead THEN metadata.entries ELSE <<>>

\* The lookup map of one field: the last entry of each file name that has
\* the file name and the field.
Lookup(entries, field) ==
    LET set == {k \in 1..Len(entries) :
                    entries[k].fileName # "" /\ entries[k][field] # ""}
    IN  [name \in {entries[k].fileName : k \in set} |->
            LET last == CHOOSE k \in set :
                            /\ entries[k].fileName = name
                            /\ \A j \in set : entries[j].fileName = name => j <= k
            IN  entries[last][field]]

\* options.customTitles?.[movie.fileName] || movie.movieTitle
OrScanned(lookup, movie, field) ==
    IF movie.fileName \in DOMAIN lookup THEN lookup[movie.fileName] ELSE movie[field]

\* videoFiles.map(movie => ({ ...movie, movieTitle: .., director: .. }))
ProcessedMovies(videoFiles, customTitles, customDirectors) ==
    [i \in 1..Len(videoFiles) |->
        [fileName |-> videoFiles[i].fileName,
         movieTitle |-> OrScanned(customTitles, videoFiles[i], "movieTitle"),
         director |-> OrScanned(customDirectors, videoFiles[i], "director")]]

MetadataInit ==
    /\ mFile = [key |-> MetadataKeyRead, entries |-> <<>>]
    /\ mMovies = <<>>

\* importVideosWithMetadata up to the titles bulkImportVideos works with.
ImportVideosWithMetadata ==
    /\ \E metadata \in MetadataFiles :
        LET videos == MetadataVideos(metadata)
            videoFiles == [i \in 1..Len(ScannedVideos) |-> ScannedInfo(ScannedVideos[i])]
        IN  /\ mFile' = metadata
            /\ mMovies' = ProcessedMovies(videoFiles, Lookup(videos, "movieTitle"),
                                          Lookup(videos, "director"))
    /\ UNCHANGED notMetadata

MetadataNext == ImportVideosWithMetadata

BulkNext ==
    \/ JobAdvance
    \/ JobFail
    \/ StartBulkImport
    \/ ImportSingleVideo
    \/ AwaitPollInterval
    \/ PollStatus
    \/ FinishBulkImport

\* One bulk import, to its end.
BulkOnceNext == BulkNext /\ bRuns' <= SingleRun

\* One bulk import with a processing service in which the embedding of
\* single frames can fail.
FrameFailureNext == (BulkNext \/ FrameEmbeddingFails) /\ bRuns' <= SingleRun

\* One bulk import with a processing service whose extraction can leave the
\* frames directory without a .jpg file.
NoFrameNext == (BulkNext \/ ExtractionWritesNoFrame) /\ bRuns' <= SingleRun

(***************************************************************************)
(* useFlash: the flash message and its timer.                              *)
(***************************************************************************)
Null == "null"

\* window.setTimeout(..., 3000)
FlashDelay == 3000

NoTimer == 0 - 1

Min(a, b) == IF a <= b THEN a ELSE b

\* The messages the page passes to showFlash.
Messages ==
    {"Unsupported file. Please choose an image.",
     "File too large. Max size is 10 MB.",
     "Image pasted. Ready to analyze.",
     "Sample loaded.",
     "Failed to load sample.",
     "Please select a screenshot first",
     "Internal server error during search",
     "Failed to fetch"}

\* !flash
NoFlash(value) == value \in {Null, ""}

\* showFlash(message) restarting the timer on every call, also when the
\* message is the one already shown.
ShowFlashRestartingTimer(message, shown, timer) ==
    [flash |-> message,
     timer |-> IF NoFlash(message) THEN NoTimer ELSE FlashDelay]

\* showFlash(message) and the effect on [flash]: setFlash with the value
\* the state already has changes nothing, so the effect does not run again
\* and the pending timer stays; a different value runs the cleanup
\* (clearTimeout) and the effect, which sets a timer unless !flash.
ShowFlash(message, shown, timer) ==
    IF message = shown
    THEN [flash |-> shown, timer |-> timer]
    ELSE [flash |-> message,
          timer |-> IF NoFlash(message) THEN NoTimer ELSE FlashDelay]

FlashInit ==
    /\ fFlash = Null
    /\ fTimer = NoTimer
    /\ fAge = 0

\* A handler calls showFlash(message).
Flash(message) ==
    LET next == ShowFlash(message, fFlash, fTimer)
    IN  /\ fFlash' = next.flash
        /\ fTimer' = next.timer
        /\ fAge' = 0

\* Some caller shows a message.
CallShowFlash ==
    /\ \E message \in Messages : Flash(message)
    /\ UNCHANGED searcherVars
    /\ UNCHANGED notPage

\* Time passes, up to the moment the pending timer is due.
TimePasses ==
    /\ fTimer # 0
    /\ LET step == IF fTimer = NoTimer THEN TimeStep ELSE Min(TimeStep, fTimer)
       IN  /\ fTimer' = IF fTimer = NoTimer THEN NoTimer ELSE fTimer - step
           /\ fAge' = Min(fAge + step, FlashDelay)
    /\ UNCHANGED fFlash
    /\ UNCHANGED searcherVars
    /\ UNCHANGED notPage

\* The timer callback: setFlash(null); the effect then returns at once.
FlashTimeout ==
    /\ fTimer = 0
    /\ fFlash' = Null
    /\ fTimer' = NoTimer
    /\ UNCHANGED fAge
    /\ UNCHANGED searcherVars
    /\ UNCHANGED notPage

FlashNext == CallShowFlash \/ TimePasses \/ FlashTimeout

(***************************************************************************)
(* ImageSearcher: the selected file, its preview URL and the search.       *)
(***************************************************************************)
\* File.type as its characters.
ImagePrefix == <<"i", "m", "a", "g", "e", "/">>
Png == ImagePrefix \o <<"p", "n", "g">>
Jpeg == ImagePrefix \o <<"j", "p", "e", "g">>
TextPlain == <<"t", "e", "x", "t", "/", "p", "l", "a", "i", "n">>

\* 10 * 1024 * 1024
MaxFileSize == 10 * 1024 * 1024

File(name, type, size) == [name |-> name, type |-> type, size |-> size]

\* useState<File | null>(null)
NoFile == File("", <<>>, 0)

\* The files a user pastes, drops, browses or picks: images below and at the
\* size limit, an image above it, a text file, a file of unknown type.
Files ==
    {File("a.png", Png, 2048),
     File("b.jpg", Jpeg, MaxFileSize),
     File("c.txt", TextPlain, 2048),
     File("d.png", Png, MaxFileSize + 1),
     File("e", <<>>, 2048)}

\* String.prototype.startsWith
StartsWith(chars, prefix) ==
    /\ Len(chars) >= Len(prefix)
    /\ SubSeq(chars, 1, Len(prefix)) = prefix

\* f.type.startsWith("image/")
IsImage(f) == StartsWith(f.type, ImagePrefix)

\* A size check that also rejects a file of exactly the limit.
TooLargeAtLimit(f) == f.size >= MaxFileSize

\* f.size > 10 * 1024 * 1024
TooLarge(f) == f.size > MaxFileSize

Rejected(f) == ~IsImage(f) \/ TooLarge(f)

RejectionMessage(f) ==
    IF ~IsImage(f) THEN "Unsupported file. Please choose an image."
    ELSE "File too large. Max size is 10 MB."

\* useState<string | null>(null) of preview; object URLs are numbered in
\* the order URL.createObjectURL returns them.
NoUrl == 0

\* An updater that forgets to revoke the URL it replaces.
PreviewUpdaterKeepingPrev(prev, url) == [preview |-> url, revoked |-> {}]

\* setPreview((prev) => { if (prev) URL.revokeObjectURL(prev); return url })
PreviewUpdater(prev, url) ==
    [preview |-> url, revoked |-> IF prev # NoUrl THEN {prev} ELSE {}]

\* The results of a response for the search of file `query`.
Items(query, n) == [i \in 1..n |-> [query |-> query, rank |-> i]]

\* How the fetch of /api/videos/search-screenshot settles.
ResponseOutcomes ==
    {[kind |-> "ok", found |-> n] : n \in 0..MaxShown}
        \cup {[kind |-> "nonOK", found |-> 0], [kind |-> "throws", found |-> 0]}

\* err.message of the error handleSearch catches
ErrorMessage(kind) ==
    IF kind = "nonOK" THEN "Internal server error during search" ELSE "Failed to fetch"

\* isSearching reset only at the end of the try block.
SearchingAfterSuccessOnly(kind) == kind # "ok"

\* finally { setIsSearching(false) }
SearchingAfter(kind) == FALSE

\* disabled={!file || isSearching}
SearchDisabled == iFile = NoFile \/ iSearching

SearcherInit ==
    /\ iFile = NoFile
    /\ iPreview = NoUrl
    /\ iStatus = "idle"
    /\ iResult = Null
    /\ iSearching = FALSE
    /\ iResults = <<>>
    /\ iInflight = <<>>
    /\ iLive = {}
    /\ iCreated = 0

\* The state updates of handleNewFile(f), without the flash.
SelectFile(f) ==
    IF Rejected(f)
    THEN UNCHANGED searcherVars
    ELSE LET url == iCreated + 1
             updated == PreviewUpdater(iPreview, url)
         IN  /\ iFile' = f
             /\ iCreated' = url
             /\ iPreview' = updated.preview
             /\ iLive' = (iLive \cup {url}) \ updated.revoked
             /\ iResult' = Null
             /\ iStatus' = "idle"
             /\ UNCHANGED <<iSearching, iResults, iInflight>>

\* handleNewFile(f), as the drop zone and the file input call it.
HandleNewFile(f) ==
    /\ Rejected(f) \/ iCreated < MaxUrls
    /\ SelectFile(f)
    /\ IF Rejected(f) THEN Flash(RejectionMessage(f)) ELSE UNCHANGED flashVars
    /\ UNCHANGED notPage

DropOrBrowse == \E f \in Files : HandleNewFile(f)

\* usePaste: handlePasted(blob) for an image item, then the flash.
Paste ==
    /\ \E f \in Files :
        /\ IsImage(f)
        /\ Rejected(f) \/ iCreated < MaxUrls
        /\ SelectFile(f)
    /\ Flash("Image pasted. Ready to analyze.")
    /\ UNCHANGED notPage

\* onPickSample once its fetch settled: the sample becomes a File and goes
\* through handleNewFile, or the fetch failed.
PickSample ==
    /\ \/ /\ \E f \in Files :
               /\ Rejected(f) \/ iCreated < MaxUrls
               /\ SelectFile(f)
          /\ Flash("Sample loaded.")
       \/ /\ UNCHANGED searcherVars
          /\ Flash("Failed to load sample.")
    /\ UNCHANGED notPage

\* onReset, from the button shown over the preview.
OnReset ==
    /\ iPreview # NoUrl
    /\ iFile' = NoFile
    /\ iResult' = Null
    /\ iStatus' = "idle"
    /\ iResults' = <<>>
    /\ IF iPreview # NoUrl
       THEN /\ iLive' = iLive \ {iPreview}
            /\ iPreview' = NoUrl
       ELSE UNCHANGED <<iLive, iPreview>>
    /\ UNCHANGED <<iSearching, iInflight, iCreated>>
    /\ UNCHANGED flashVars
    /\ UNCHANGED notPage

\* handleSearch up to `await fetch(...)`, from the Search button.
HandleSearch ==
    /\ ~SearchDisabled
    /\ IF iFile = NoFile
       THEN /\ Flash("Please select a screenshot first")
            /\ UNCHANGED <<iSearching, iResults, iInflight>>
       ELSE /\ iSearching' = TRUE
            /\ iResults' = <<>>
            /\ iInflight' = Append(iInflight, [query |-> iFile.name])
            /\ UNCHANGED flashVars
    /\ UNCHANGED <<iFile, iPreview, iStatus, iResult, iLive, iCreated>>
    /\ UNCHANGED notPage

\* The fetch settles and handleSearch runs to its end; the effect on
\* [error] shows a caught error as the flash.
ResponseArrives ==
    /\ \E k \in 1..Len(iInflight), outcome \in ResponseOutcomes :
        /\ iInflight' = SubSeq(iInflight, 1, k - 1)
                            \o SubSeq(iInflight, k + 1, Len(iInflight))
        /\ IF outcome.kind = "ok"
           THEN /\ iResults' = Items(iInflight[k].query, outcome.found)
                /\ UNCHANGED flashVars
           ELSE /\ UNCHANGED iResults
                /\ Flash(ErrorMessage(outcome.kind))
        /\ iSearching' = SearchingAfter(outcome.kind)
    /\ UNCHANGED <<iFile, iPreview, iStatus, iResult, iLive, iCreated>>
    /\ UNCHANGED notPage

SearcherNext ==
    \/ DropOrBrowse
    \/ Paste
    \/ PickSample
    \/ OnReset
    \/ HandleSearch
    \/ ResponseArrives

(***************************************************************************)
(* Specifications.                                                         *)
(***************************************************************************)
Init ==
    /\ SearchInit /\ RouteInit /\ UpsertInit /\ IngestInit /\ MetadataInit
    /\ FlashInit /\ SearcherInit

SpecSearch == Init /\ [][SearchNext]_vars
SpecRoute == Init /\ [][RouteNext]_vars
SpecUpsert == Init /\ [][UpsertNext]_vars
\* The upload route and the bulk import write disjoint frames directories
\* and records, so each is explored on its own.
SpecUpload == Init /\ [][UploadNext]_vars
SpecBulk == Init /\ [][BulkNext]_vars

\* The importer's own steps always go on: its timers fire, and every
\* request it awaits is answered or fails.  Nothing obliges the processing
\* service to move a job on.
ImporterFairness ==
    /\ WF_vars(ImportSingleVideo)
    /\ WF_vars(AwaitPollInterval)
    /\ WF_vars(PollStatus)
    /\ WF_vars(FinishBulkImport)
SpecBulkOnce == Init /\ [][BulkOnceNext]_vars
SpecMetadata == Init /\ [][MetadataNext]_vars
SpecFrameFailure == Init /\ [][FrameFailureNext]_vars
SpecNoFrame == Init /\ [][NoFrameNext]_vars
SpecFlash == Init /\ [][FlashNext]_vars
SpecSearcher == Init /\ [][SearcherNext]_vars

\* Every fetch settles: the browser resolves or rejects it, and the rest of
\* handleSearch then runs.
SearcherFairness == WF_vars(ResponseArrives)
SpecSearcherLive == Init /\ [][SearcherNext]_vars /\ SearcherFairness
SpecBulkLive == Init /\ [][BulkOnceNext]_vars /\ ImporterFairness

Next ==
    \/ SearchNext \/ RouteNext \/ UpsertNext \/ UploadNext \/ BulkNext
    \/ FrameEmbeddingFails \/ ExtractionWritesNoFrame \/ MetadataNext
    \/ FlashNext \/ SearcherNext
Spec == Init /\ [][Next]_vars

(***************************************************************************)
(* Properties of searchSimilarFrames (SpecSearch).                         *)
(***************************************************************************)
ReturnedOk == sPc = "returned" /\ sRet.status = "ok"

\* The lists querySimilarVectors handed to searchSimilarFrames.
PrimaryReceived == OrEmpty(sOutcome.results)
FallbackReceived == OrEmpty(sOutcome.fallback)

PathsOf(list) == {list[i].framePath : i \in 1..Len(list)}
EntriesOf(list) == {list[i] : i \in 1..Len(list)}
HasRepeatedPath(list) ==
    \E i, j \in 1..Len(list) : i # j /\ list[i].framePath = list[j].framePath
Ascending(list) ==
    \A i \in 1..(Len(list) - 1) : list[i].score <= list[i + 1].score

\* C1: the result list of searchSimilarFrames holds at most one entry per
\* framePath, for primary and for substituted fallback candidates alike.
C1_OnePerFramePath ==
    ReturnedOk => ~HasRepeatedPath(sRet.results)

C1_Witness ==
    /\ ReturnedOk
    /\ Len(PrimaryReceived) = 0
    /\ HasRepeatedPath(FallbackReceived)
    /\ Len(sRet.results) > 0

\* C2: a successful return of searchSimilarFrames always carries an empty
\* fallback list, whatever the store returned.
C2_FallbackEmptied ==
    ReturnedOk => sRet.fallback = <<>>

C2_Witness ==
    /\ ReturnedOk
    /\ Len(PrimaryReceived) > 0
    /\ Len(FallbackReceived) > 0

\* C3: the output is built from the primary list when that is non-empty
\* (every output entry is a primary entry, every primary frame path is
\* kept), and from the fallback list exactly when the primary list is
\* empty; it is then empty only if the fallback is empty too.
C3_FallbackIffPrimaryEmpty ==
    ReturnedOk =>
        /\ Len(PrimaryReceived) > 0 =>
              /\ EntriesOf(sRet.results) \subseteq EntriesOf(PrimaryReceived)
              /\ PathsOf(sRet.results) = PathsOf(PrimaryReceived)
        /\ Len(PrimaryReceived) = 0 =>
              /\ EntriesOf(sRet.results) \subseteq EntriesOf(FallbackReceived)
              /\ PathsOf(sRet.results) = PathsOf(FallbackReceived)
              /\ (sRet.results = <<>>) <=> (Len(FallbackReceived) = 0)

C3_Witness ==
    /\ ReturnedOk
    /\ Len(PrimaryReceived) = 0
    /\ Len(FallbackReceived) > 0
    /\ sRet.results # <<>>

\* C4: the result list is ordered by non-decreasing score, whatever order
\* the store returned the candidates in.
C4_AscendingScore ==
    ReturnedOk => Ascending(sRet.results)

C4_Witness ==
    /\ ReturnedOk
    /\ ~Ascending(PrimaryReceived)
    /\ ~HasRepeatedPath(PrimaryReceived)
    /\ Len(sRet.results) >= 2

\* The contract of query() in section 4.4 of the specification: at most
\* `limit` results in ascending distance, and a fallback list (the next-best
\* results, in ascending distance) only when fewer than `limit` results
\* cleared the threshold.
StoreConforms(outcome, limit) ==
    /\ outcome.kind = "ok"
    /\ Len(OrEmpty(outcome.results)) <= limit
    /\ Ascending(OrEmpty(outcome.results))
    /\ Ascending(OrEmpty(outcome.fallback))
    /\ Len(OrEmpty(outcome.fallback)) > 0 => Len(OrEmpty(outcome.results)) < limit

\* C5: with a store that honours its contract, the list returned to the
\* caller has at most `limit` entries in non-decreasing distance, also when
\* the fallback list was substituted for an empty primary result.
C5_AtMostLimitOrdered ==
    (ReturnedOk /\ StoreConforms(sOutcome, EffectiveLimit(sLimit))) =>
        /\ Len(sRet.results) <= EffectiveLimit(sLimit)
        /\ Ascending(sRet.results)

\* C6: every store query carries the embedding of a 'full' patch, the filter
\* patchType = 'full' and the limit (3 when none is given); without a
\* 'full' patch the search fails and sends no query.
C6_FullPatchQueryOnly ==
    /\ \A i \in 1..Len(sQueries) :
          /\ \E k \in FullIndexes(sEmbs) : sQueries[i].embedding = sEmbs[k].embedding
          /\ \A k \in 1..Len(sEmbs) :
                sEmbs[k].patchType # "full" => sQueries[i].embedding # sEmbs[k].embedding
          /\ sQueries[i].filter = [patchType |-> "full"]
          /\ sQueries[i].limit = (IF sLimit.given THEN sLimit.value ELSE 3)
    /\ (sPc # "idle" /\ FullIndexes(sEmbs) = {}) =>
          /\ sQueries = <<>>
          /\ sPc = "returned"
          /\ sRet.status = "error"

C6_Witness ==
    /\ sPc = "querying"
    /\ sEmbs = <<GridC, FullA>>
    /\ ~sLimit.given
    /\ Len(sQueries) = 1

(***************************************************************************)
(* Properties of POST /search-screenshot (SpecRoute).                      *)
(***************************************************************************)
BackendFailed ==
    \/ rEmbed \in {"unreachable", "nonOK"}
    \/ rStore \in {"unreachable", "nonOK"}

\* C7: a failure of the embedding service or of the vector store on the
\* search path reaches the caller as an error response, never as a
\* successful response; a success with zero results means no match.
C7_FailureIsAnError ==
    (rPc = "responded" /\ BackendFailed) =>
        /\ rResponse.status = 500
        /\ "results" \notin DOMAIN rResponse
        /\ rResponse.details # <<>>

C7_Witness ==
    /\ rPc = "responded"
    /\ rEmbed = "ok"
    /\ rStore = "nonOK"
    /\ rResponse.status = 500

(***************************************************************************)
(* Properties of upsertFrameEmbeddings (SpecUpsert).                       *)
(***************************************************************************)
UpsertCalls == {c \in {uPrev, uLast} : c.made}

\* The (frameId, patchType, index) triple behind the i-th id of a call.
TripleOf(call, i) == <<call.frameId, call.patches[i], i - 1>>

\* C8: the ids of one call are pairwise distinct and one per embedding, two
\* calls with the same frameId and patch list build the same ids, and equal
\* ids always come from equal (frameId, patchType, index) triples.
C8_VectorIdsInjective ==
    \A c \in UpsertCalls :
        /\ Len(c.sent) = Len(c.patches)
        /\ \A i, j \in 1..Len(c.sent) : i # j => c.sent[i].id # c.sent[j].id
        /\ \A d \in UpsertCalls :
              /\ (c.frameId = d.frameId /\ c.patches = d.patches) =>
                    [i \in 1..Len(c.sent) |-> c.sent[i].id]
                        = [i \in 1..Len(d.sent) |-> d.sent[i].id]
              /\ \A i \in 1..Len(c.sent), j \in 1..Len(d.sent) :
                    c.sent[i].id = d.sent[j].id => TripleOf(c, i) = TripleOf(d, j)

C8_Witness ==
    /\ uPrev.made
    /\ uLast.made
    /\ uPrev.frameId = 1
    /\ uPrev.patches = <<"1", "grid_1">>
    /\ uLast.frameId = 11
    /\ uLast.patches = <<"full", "full">>
    /\ uLast.ret.status = "ok"

(***************************************************************************)
(* Properties of ingestion (SpecUpload, SpecBulk).                         *)
(***************************************************************************)
IngestedTwice(content) == Len(ingested[content]) >= 2

\* C9: every completed ingestion of the same video writes the same set of
\* Vector Record ids, and the store holds exactly the records of the first
\* runs: a re-run overwrites and never appends.
C9_IdempotentIngestion ==
    /\ \A c \in Contents :
          \A k \in 1..Len(ingested[c]) : ingested[c][k] = ingested[c][1]
    /\ DOMAIN uStore = UNION {ingested[c][1] : c \in {x \in Contents : ingested[x] # <<>>}}

\* C10: a bulk import started from the command line starts no processing
\* job for a video whose frames directory already holds a .jpg.
C10_CliReusesFrames ==
    bEntry \in {"cli", "cliMetadata"} =>
        \A i \in 1..Len(bStarted) : bStarted[i].existing = 0

LastResult(results) == results[Len(results)]

\* The status of every job moves one stage on or to `error`, and never
\* leaves `done` or `error`.
JobsFollowStateMachine ==
    \A j \in 1..Len(jobs) :
        jobs'[j].status # jobs[j].status =>
            /\ Running(jobs[j])
            /\ jobs'[j].status \in {NextJobState(jobs[j].status), "error"}

\* The importer polls the job it was given an id for, and only while the
\* status it last observed is neither `done` nor `error`.
PollingAJob ==
    bPc \in {"polling", "requesting"} =>
        /\ bJob \in 1..Len(jobs)
        /\ bStatus \notin {"done", "error", "none"}
        /\ bStarted # <<>>
        /\ LastResult(bStarted).outcome = "job"

\* A start request answered without a job id fails the import at once.
MissingJobIdIsAnError ==
    (bPc = "next" /\ bPc' = "next" /\ Len(bStarted') > Len(bStarted)
        /\ LastResult(bStarted').outcome = "noJobId") =>
            /\ Len(jobs') = Len(jobs)
            /\ ~LastResult(bResults').success
            /\ LastResult(bResults').error = "Failed to start embedding job"

\* The polling ends on an observed `done` (frames are enumerated), on an
\* observed `error` (failure with the job's error), or on a status request
\* that threw.
PollingEnds ==
    (bPc = "requesting" /\ bPc' = "next") =>
        LET result == LastResult(bResults')
        IN  \/ /\ bStatus' = "done"
               /\ jobs[bJob].status = "done"
               /\ result.success
               /\ result.framesProcessed = disk[jobs[bJob].output_dir].jpgs
               /\ Len(bFrames') = result.framesProcessed
            \/ /\ bStatus' = "error"
               /\ ~result.success
               /\ result.error = "Embedding job failed: " \o jobs[bJob].error
            \/ /\ bStatus' = bStatus
               /\ ~result.success
               /\ result.error = RequestFailed

PollingGoesOn ==
    (bPc = "requesting" /\ bPc' = "polling") =>
        /\ bStatus' \notin {"done", "error"}
        /\ bResults' = bResults

C12_ImportEventuallyReturns ==
    (bPc \in {"polling", "requesting"}) ~> (bPc = "next")

\* C13: every frame the importer enumerated carries the timestamp of its
\* position in time: position times the interval sent to the service.
C13_TimestampIsIndexTimesInterval ==
    \A i \in 1..Len(bFrames) :
        bFrames[i].timestamp = bFrames[i].position * FrameInterval

\* The import of a.mp4 (9 seconds long) has just ended with success, after
\* a job that was started on an empty frames directory.
NineSecondVideoIngested ==
    /\ bPc = "next"
    /\ bStatus = "done"
    /\ bResults # <<>>
    /\ LastResult(bResults).success
    /\ LastResult(bResults).fileName = "a.mp4"
    /\ LastResult(bStarted).fileName = "a.mp4"
    /\ LastResult(bStarted).existing = 0
    /\ Duration("a") = 9

\* The ids of the records of the store that belong to frames of `dir`.
RecordsOf(dir) ==
    {id \in DOMAIN uStore : uStore[id].frameId \div 100 = DirNumber(dir)}

ReportedWritten(ret) ==
    IF ret.status = "ok" THEN {ret.ids[i] : i \in 1..Len(ret.ids)}
    ELSE IF "succeeded" \in DOMAIN ret THEN ret.succeeded
    ELSE {}

\* C16: upsertFrameEmbeddings returns the ids, one per embedding in input
\* order, only when the whole batch was written, and after a partial
\* failure its caller is told exactly the ids that were written.
C16_CallerKnowsWhatWasWritten ==
    uLast.made =>
        /\ uLast.ret.status = "ok" =>
              uLast.ret.ids = [i \in 1..Len(uLast.sent) |-> uLast.sent[i].id]
        /\ ReportedWritten(uLast.ret) = uLast.written

\* C17: the importer gives a movie up for a failed request to the
\* processing service only after that request was tried again: an import
\* that ended with the request's error saw more than one request fail.
C17_FailedRequestIsRetried ==
    (bPc = "next" /\ bResults # <<>> /\ ~LastResult(bResults).success
        /\ LastResult(bResults).error = RequestFailed) => bRequestFailures > 1

\* C18: when the embedding of single frames failed and the job went on to
\* done, the import succeeds and its result tells how many frames failed:
\* the frames processed less the embeddings stored.
C18_FrameFailuresReported ==
    (bPc = "next" /\ bStatus = "done" /\ bResults # <<>>) =>
        /\ LastResult(bResults).success
        /\ LastResult(bResults).framesProcessed - LastResult(bResults).embeddingsStored
              = jobs[bJob].failed

\* The list searchSimilarFrames took its candidates from, in the order in
\* which the store returned them.
CandidatesReceived ==
    IF Len(PrimaryReceived) > 0 THEN PrimaryReceived ELSE FallbackReceived

\* Where the store's answer first names a frame path.
FirstIndexOf(list, path) ==
    CHOOSE i \in 1..Len(list) :
        /\ list[i].framePath = path
        /\ \A j \in 1..(i - 1) : list[j].framePath # path

ListedValue(name, field) ==
    LET set == {k \in 1..Len(mFile.entries) :
                    mFile.entries[k].fileName = name /\ mFile.entries[k][field] # ""}
    IN  IF set = {} THEN ""
        ELSE mFile.entries[CHOOSE k \in set : \A j \in set : j <= k][field]

\* C19: with a metadata file in the documented format, every scanned video
\* the file lists is imported with the listed movieTitle and director.
C19_DocumentedMetadataApplied ==
    (mMovies # <<>> /\ mFile.key = DocumentedKey) =>
        \A i \in 1..Len(mMovies) :
            /\ ListedValue(mMovies[i].fileName, "movieTitle") # "" =>
                  mMovies[i].movieTitle = ListedValue(mMovies[i].fileName, "movieTitle")
            /\ ListedValue(mMovies[i].fileName, "director") # "" =>
                  mMovies[i].director = ListedValue(mMovies[i].fileName, "director")

\* The same statement for a file that uses the key the code reads.
MetadataAppliedForKeyRead ==
    (mMovies # <<>> /\ mFile.key = MetadataKeyRead) =>
        \A i \in 1..Len(mMovies) :
            /\ ListedValue(mMovies[i].fileName, "movieTitle") # "" =>
                  mMovies[i].movieTitle = ListedValue(mMovies[i].fileName, "movieTitle")
            /\ ListedValue(mMovies[i].fileName, "director") # "" =>
                  mMovies[i].director = ListedValue(mMovies[i].fileName, "director")

\* The jobs of the embedding service that have neither finished nor failed.
JobsInFlight == {j \in 1..Len(jobs) : Running(jobs[j])}

\* C21: bulk import never has two video-processing jobs in flight at once.
C21_OneJobInFlight == Cardinality(JobsInFlight) <= 1

\* Every start request is sent between two imports, never during one.
StartsBetweenImports == [][Len(jobs') > Len(jobs) => bPc = "next"]_vars

\* C22: the summary bulkImportVideos returns has total = successful + failed
\* = the number of results, with one result per scanned video in scan order;
\* while the loop runs, the videos before the current one all have their
\* result, whether they succeeded or failed.
C22_SummaryAccountsForEveryVideo ==
    /\ bPc \in {"next", "polling", "requesting"} =>
          /\ Len(bResults) = bIndex - 1
          /\ \A i \in 1..Len(bResults) :
                bResults[i].fileName = FileName(ScannedVideos[i])
    /\ bSummary # NoSummary =>
          /\ bSummary.total = bSummary.successful + bSummary.failed
          /\ bSummary.total = Len(bSummary.results)
          /\ Len(bSummary.results) = Len(ScannedVideos)
          /\ \A i \in 1..Len(bSummary.results) :
                bSummary.results[i].fileName = FileName(ScannedVideos[i])

\* A summary whose first video failed and whose second video succeeded.
C22_Witness ==
    /\ bSummary # NoSummary
    /\ bSummary.successful = 1
    /\ bSummary.failed = 1
    /\ ~bSummary.results[1].success
    /\ bSummary.results[2].success

\* C23: importSingleVideo reports success only for a video with at least
\* one frame: every successful result has framesProcessed >= 1.
C23_SuccessHasAFrame ==
    \A i \in 1..Len(bResults) :
        bResults[i].success => bResults[i].framesProcessed >= 1

\* C24: of the candidates that share a framePath, searchSimilarFrames keeps
\* the one with the smallest score, whatever the order of the store's list.
C24_KeepsSmallestScore ==
    ReturnedOk =>
        \A i \in 1..Len(sRet.results) : \A k \in 1..Len(CandidatesReceived) :
            CandidatesReceived[k].framePath = sRet.results[i].framePath =>
                sRet.results[i].score <= CandidatesReceived[k].score

\* The same statement for the answers in which every list is ascending.
KeepsSmallestOfAscending ==
    (ReturnedOk /\ Ascending(CandidatesReceived)) =>
        \A i \in 1..Len(sRet.results) : \A k \in 1..Len(CandidatesReceived) :
            CandidatesReceived[k].framePath = sRet.results[i].framePath =>
                sRet.results[i].score <= CandidatesReceived[k].score

\* C30: the limit the /search-screenshot route passes to searchSimilarFrames
\* is a positive integer: the parsed limit field when valid, else 3.
C30_LimitIsPositive ==
    /\ rPc = "searching" => RouteLimit(reqLimit) >= 1
    /\ (rPc = "responded" /\ rResponse.status = 200) => rResponse.limit >= 1

\* C25: a flash message is cleared no earlier than 3000 ms after the most
\* recent call of showFlash, also when that call repeated the message shown.
C25_ShownForFullDelay ==
    [][(fFlash # Null /\ fFlash' = Null) => fAge >= FlashDelay]_vars

\* C26: isSearching is true exactly while a search request is in flight, at
\* most one request is in flight at any time, and every search that started
\* a request sets isSearching back to false, however the request ends.
C26_SearchingWhileInFlight ==
    /\ [](iSearching <=> Len(iInflight) = 1)
    /\ [](Len(iInflight) <= 1)
    /\ (iSearching ~> ~iSearching)

\* A search whose request threw has set isSearching back to false.
C26_Witness ==
    /\ ~iSearching
    /\ Len(iInflight) = 0
    /\ fFlash = ErrorMessage("throws")

\* C27: whenever searchResults is non-empty, the results were returned by a
\* search of the currently selected file.
C27_ResultsOfSelectedFile ==
    \A i \in 1..Len(iResults) :
        iFile # NoFile /\ iResults[i].query = iFile.name

\* C28: handleNewFile rejects a file whose type does not start with "image/"
\* or whose size exceeds 10 * 1024 * 1024 bytes, leaving file, preview,
\* result, status and searchResults as they were and showing a flash
\* message; an image of exactly that size is accepted.
C28_RejectionLeavesStateAlone ==
    [][\A f \in Files :
          HandleNewFile(f) =>
              IF ~StartsWith(f.type, ImagePrefix) \/ f.size > 10 * 1024 * 1024
              THEN /\ UNCHANGED <<iFile, iPreview, iResult, iStatus, iResults>>
                   /\ fFlash' \in Messages
                   /\ fAge' = 0
              ELSE /\ iFile' = f
                   /\ iPreview' # NoUrl]_vars

\* An image of exactly 10 MB is selected and its results are shown, and a
\* file was just rejected for its size.
C28_Witness ==
    /\ iFile # NoFile
    /\ iFile.size = 10 * 1024 * 1024
    /\ Len(iResults) > 0
    /\ fFlash = "File too large. Max size is 10 MB."

\* C29: at most one preview object URL is live, it is the one `preview`
\* holds, and preview is non-null exactly when a file is selected.
C29_OnePreviewUrlLive ==
    /\ Cardinality(iLive) <= 1
    /\ iLive = (IF iPreview = NoUrl THEN {} ELSE {iPreview})
    /\ iPreview # NoUrl <=> iFile # NoFile

\* A second file was accepted after a first one.
C29_Witness ==
    /\ iCreated >= 2
    /\ iPreview = iCreated
    /\ iLive = {iCreated}

====
